---- MODULE Spec2Model ----
(***************************************************************************)
(* State-machine model of the Text2SPL backend service                     *)
(* (apps/backend/app/services/spl_service.py, class SPLService).           *)
(*                                                                         *)
(* A request text is a sequence of text fragments joined by single spaces. *)
(* Python's (k in q) is modelled by the table Substrings (which probe      *)
(* strings occur inside a lower-cased fragment) and by Joins (probes that  *)
(* occur across the space joining two fragments).  Confidences are exact   *)
(* rationals in units of 1/25200, so that 0.3, 0.4/n and 0.3/m (n, m <= 10)*)
(* are integers: Pct(95) is 0.95.                                          *)
(*                                                                         *)
(* A step is a stage of generate_spl_query or, inside the classifier and   *)
(* the resolver, the code around one adapter call (language model,         *)
(* embedder, reranker, vector store); the reply of the adapter is chosen   *)
(* nondeterministically, raising included.                                 *)
(***************************************************************************)
EXTENDS Integers, Sequences, FiniteSets, TLC

VARIABLES
    company_data,   \* self.company_data, loaded once by _load_data_files
    qa_pairs,       \* self.qa_pairs (number of valid exemplars loaded)
    anchor_embs,    \* self._anchor_embs: "None" or "cached"
    op,             \* the upward operation in progress ("idle" when none)
    pc,             \* position inside that operation
    user_query,     \* the text the operation was called with
    verdict,        \* (is_related, conf, method) once is_splunk_related returned
    dyn,            \* _pick_best_company: result of strategy A, or None
    candidates,     \* _pick_best_company: the candidates list
    company,        \* the ContextResolution once _pick_best_company returned
    improved,       \* generate_spl_query: prompt_fixer's result
    extracted,      \* generate_spl_query: the partial answers joined
    spl_query,      \* generate_spl_query: _generate_unified_spl_query's result
    response,       \* the value returned to the caller, None before
    raised,         \* the exception that reached the caller, None if none
    exc,            \* the exception that left the step just taken, None if none
    reply,          \* the adapter reply the step just taken received, or None
    trace,          \* the steps the operation in progress has taken, in order
    spl_service,    \* routers/spl.py: the global spl_service, "None" or "SPLService"
    anchor_cache,   \* _anchor_embs of each SPLService object of the process
    requests,       \* the requests the process serves: position, object, calls
    populated,      \* how often each object's _anchor_embs was assigned
    chat_service    \* routers/chat.py: the ChatService object, None until
                    \* ChatService() has run

vars == <<company_data, qa_pairs, anchor_embs, op, pc, user_query, verdict,
          dyn, candidates, company, improved, extracted, spl_query,
          response, raised, exc, reply, trace,
          spl_service, anchor_cache, requests, populated, chat_service>>

(***************************************************************************)
(* Bounds                                                                  *)
(***************************************************************************)
MaxLen == 2         \* fragments in a request text
MaxDocs == 1        \* passages the vector search may return
MaxRequests == 2    \* requests the process serves at the same time

(***************************************************************************)
(* Optional values: None is Python's None.                                 *)
(***************************************************************************)
None == <<>>
Some(v) == <<v>>
Val(o) == o[1]

Pct(p) == p * 252
One == Pct(100)

(***************************************************************************)
(* Texts                                                                   *)
(***************************************************************************)
Fragments ==
    {"index=main", "Splunk", "failed login", "pasta", "sudo",
     "TechNova", "GreenEnergy", "across all companies",
     "monitor changes on servers"}

Texts == UNION {[1..n -> Fragments] : n \in 1..MaxLen}

\* str.lower() on a fragment or on a catalog string
LowerOf(s) ==
    CASE s = "Splunk" -> "splunk"
      [] s = "TechNova" -> "technova"
      [] s = "GreenEnergy" -> "greenenergy"
      [] s = "Default" -> "default"
      [] s = "Windows" -> "windows"
      [] s = "Linux" -> "linux"
      [] s = "System" -> "system"
      [] OTHER -> s

lower(t) == [i \in 1..Len(t) |-> LowerOf(t[i])]

\* the probe strings (keywords, tenant names, phrases) that are substrings
\* of a lower-cased string
Substrings(s) ==
    CASE s = "index=main" -> {"index="}
      [] s = "splunk" -> {"splunk", "spl"}
      [] s = "failed login" -> {"failed", "login", "log", "failed login"}
      [] s = "pasta" -> {"past"}
      [] s = "technova" -> {"technova"}
      [] s = "greenenergy" -> {"greenenergy"}
      [] s = "across all companies" -> {"all companies", "across all companies"}
      [] s = "sudo" -> {"sudo"}
      [] s = "monitor changes on servers" ->
            {"monitor", "change", "server", "servers"}
      [] s = "windows" -> {"windows", "win"}
      [] s = "linux" -> {"linux"}
      [] s = "system" -> {"system"}
      [] s = "default" -> {"default"}
      [] OTHER -> {}

\* <<k, a, b>>: probe k occurs in a \o " " \o b across the joining space
Joins == {<<"login fail", "failed login", "failed login">>}

\* Python's (k in q) for a lower-cased text q
In(k, q) ==
    \/ \E i \in 1..Len(q) : k \in Substrings(q[i])
    \/ \E i \in 1..(Len(q) - 1) : <<k, q[i], q[i + 1]>> \in Joins

\* re.findall(r"\b\w+\b", s) for a lower-cased string
WordsOf(s) ==
    CASE s = "index=main" -> <<"index", "main">>
      [] s = "failed login" -> <<"failed", "login">>
      [] s = "across all companies" -> <<"across", "all", "companies">>
      [] s = "monitor changes on servers" ->
            <<"monitor", "changes", "on", "servers">>
      [] OTHER -> <<s>>

(***************************************************************************)
(* _initialize_splunk_patterns and the keyword lists of is_splunk_related  *)
(***************************************************************************)
splunk_syntax_keywords ==
    {"index=", "sourcetype=", "source=", "host=", "earliest=", "latest=",
     "| stats", "| table", "| search", "| where", "| fields", "| rename",
     "| eval", "| timechart", "| transaction", "| bucket", "| top",
     "| rare", "| chart", "| dedup", "| rex", "| spath", "| sort",
     "| head", "| tail", "| join", "| lookup", "| mvexpand", "| mvcombine",
     "| outputlookup", "| multikv", "| inputlookup", "| append",
     "| collect", "| datamodel", "| dbinspect", "| metadata", "| savedsearch"}

splunk_domain_keywords ==
    {"splunk", "spl", "dashboard", "search head", "indexer", "forwarder",
     "knowledge object", "search app", "security essentials", "itsi",
     "enterprise security", "monitoring console", "universal forwarder",
     "heavy forwarder", "deployment server", "search processing language",
     "search job", "event log", "field extraction", "pivot",
     "lookup table", "eventtypes", "tags", "props.conf", "transforms.conf"}

security_keywords ==
    {"login", "logon", "authentication", "auth", "failed", "success", "failure",
     "security", "alert", "attack", "intrusion", "breach", "threat",
     "service", "process", "system", "registry", "change", "modification",
     "network", "connection", "traffic", "port", "firewall",
     "event", "log", "audit", "monitor", "detect", "search",
     "user", "account", "access", "permission", "group",
     "ssh", "rdp", "windows", "linux", "server"}

\* the time words without "past", as a matcher of whole words would see
\* them in a text about pasta
time_patterns_without_past ==
    {"last", "recent", "today", "yesterday", "hour", "day", "week", "month"}

time_patterns ==
    {"last", "recent", "past", "today", "yesterday", "hour", "day", "week", "month"}

\* len(self.splunk_intent_anchors)
NumAnchors == 20

(***************************************************************************)
(* The catalog (_load_data_files).  The tenant file is not part of the     *)
(* sources; the entries follow the index/sourcetype pairs the tests        *)
(* expect.  DefaultCatalog is what the loader substitutes when the file    *)
(* is not found.                                                           *)
(***************************************************************************)
TechNova ==
    [company_name |-> "TechNova", product_name |-> "Windows",
     index |-> "TechNova_win", sourcetype |-> "WinEventLog",
     tokens |-> {"technova", "windows", "technology", "failed", "login",
                 "audit", "technova_win", "wineventlog"},
     domain_tokens |-> {"technology", "failed", "login", "audit"}]

GreenEnergy ==
    [company_name |-> "GreenEnergy", product_name |-> "Linux",
     index |-> "GreenEnergy_linux", sourcetype |-> "linux_secure",
     tokens |-> {"greenenergy", "linux", "energy", "sudo", "monitoring",
                 "greenenergy_linux", "linux_secure"},
     domain_tokens |-> {"energy", "sudo", "monitoring"}]

DefaultCompany ==
    [company_name |-> "Default", product_name |-> "System",
     index |-> "main", sourcetype |-> "*",
     tokens |-> {"default", "system", "general", "log", "analysis", "main"},
     domain_tokens |-> {"general", "log", "analysis"}]

DefaultCatalog == <<DefaultCompany>>

\* the two outcomes of the load: no data file found (no exemplars, the
\* default company), or both files found
_load_data_files ==
    {[qa_pairs |-> 0, company_data |-> DefaultCatalog],
     [qa_pairs |-> 1, company_data |-> <<TechNova, GreenEnergy>>]}

(***************************************************************************)
(* Adapter replies.  A call either raises (with the exception's message)   *)
(* or returns.                                                             *)
(***************************************************************************)
ModelErrors ==
    {"Groq client not configured. Set GROQ_API_KEY environment variable.",
     "ModelError"}
EmbedErrors == {"EmbedderError"}

\* cosine similarities the embedder's vectors may produce
SimValues == {Pct(-5), Pct(32), Pct(40)}

\* replies to the intent classification prompt (_llm_is_splunk_related):
\* plain JSON, JSON inside prose, JSON whose braces are backslash-escaped,
\* or text without any JSON object; with or without the expected keys
IntentReplies ==
    [kind : {"raise"}, msg : ModelErrors, form : {"none"}, keys : {FALSE},
     is_splunk_related : {FALSE}, confidence : {0}]
    \cup
    [kind : {"text"}, msg : {""}, form : {"no_json"}, keys : {FALSE},
     is_splunk_related : {FALSE}, confidence : {0}]
    \cup
    [kind : {"text"}, msg : {""},
     form : {"json", "prose_json", "escaped_json"}, keys : BOOLEAN,
     is_splunk_related : BOOLEAN, confidence : {Pct(10), Pct(90)}]

\* replies of the embedder inside is_splunk_related: the anchor batch
\* (only made while the cache is empty) or the query embedding may raise
ClassifyEmbedReplies ==
    [kind : {"raise"}, at : {"anchors", "query"}, msg : EmbedErrors, score : {0}]
    \cup
    [kind : {"ok"}, at : {"none"}, msg : {""}, score : SimValues]

(***************************************************************************)
(* models/spl.py                                                           *)
(***************************************************************************)
SPLResponse(success, query, comp, idx, st, conf, method, valid, issues, error) ==
    [success |-> success, spl_query |-> query, company |-> comp,
     index |-> idx, sourcetype |-> st, confidence |-> conf,
     detection_method |-> method, syntax_valid |-> valid,
     issues |-> issues, error |-> error]

RelevanceCheckResponse(v) ==
    [is_splunk_related |-> v.is_related, confidence |-> v.confidence,
     method |-> v.method]

(***************************************************************************)
(* is_splunk_related                                                       *)
(***************************************************************************)
Verdict(r, c, m) == [is_related |-> r, confidence |-> c, method |-> m]

\* a cascade that tests the security keywords before the domain vocabulary
KeywordVerdictSecurityFirst(q) ==
    IF \E k \in splunk_syntax_keywords : In(k, q)
    THEN Some(Verdict(TRUE, Pct(95), "syntax_match"))
    ELSE IF \E k \in security_keywords : In(k, q)
    THEN Some(Verdict(TRUE, Pct(80), "security_keyword_match"))
    ELSE IF \E k \in splunk_domain_keywords : In(k, q)
    THEN Some(Verdict(TRUE, Pct(88), "domain_match"))
    ELSE IF \E k \in time_patterns : In(k, q)
    THEN Some(Verdict(TRUE, Pct(75), "time_pattern_match"))
    ELSE None

\* stages 1-4: the verdict of the first keyword list with an entry in q,
\* None when no list has one
KeywordVerdict(q) ==
    IF \E k \in splunk_syntax_keywords : In(k, q)
    THEN Some(Verdict(TRUE, Pct(95), "syntax_match"))
    ELSE IF \E k \in splunk_domain_keywords : In(k, q)
    THEN Some(Verdict(TRUE, Pct(88), "domain_match"))
    ELSE IF \E k \in security_keywords : In(k, q)
    THEN Some(Verdict(TRUE, Pct(80), "security_keyword_match"))
    ELSE IF \E k \in time_patterns : In(k, q)
    THEN Some(Verdict(TRUE, Pct(75), "time_pattern_match"))
    ELSE None

\* the embedding_threshold each caller passes
embedding_threshold(o) ==
    IF o = "generate_spl_query" THEN Pct(35) ELSE Pct(30)

\* re.search(r"\\{.*\\}", resp, re.S): backslash, brace, anything,
\* backslash, brace.  Only a reply with backslash-escaped braces matches;
\* obj_str is the match, or "" without one
obj_str(resp) ==
    IF resp.form = "escaped_json" THEN "\\{...\\}" ELSE ""

\* json.loads(obj_str): neither "" nor a text starting with a backslash is
\* JSON, so it raises (None); the reply's object otherwise
json_loads_intent(s, resp) ==
    IF s = "" \/ s = "\\{...\\}" THEN None
    ELSE Some([keys |-> resp.keys,
               is_splunk_related |-> resp.is_splunk_related,
               confidence |-> resp.confidence])

intent_fallback == [keys |-> TRUE, is_splunk_related |-> FALSE, confidence |-> 0]

\* the obj of _llm_is_splunk_related after its try/except
intent_obj(resp) ==
    IF resp.kind = "raise" THEN intent_fallback
    ELSE LET o == json_loads_intent(obj_str(resp), resp)
         IN  IF o = None THEN intent_fallback ELSE Val(o)

\* _llm_is_splunk_related: the verdict, or None when obj[...] raises KeyError
_llm_is_splunk_related(resp) ==
    LET obj == intent_obj(resp)
    IN  IF obj.keys
        THEN Some(Verdict(obj.is_splunk_related, obj.confidence, "llm_intent"))
        ELSE None

(***************************************************************************)
(* _pick_best_company and its strategies                                   *)
(***************************************************************************)
\* language-model replies that should carry a JSON object have a form:
\* "json" is an object the code can use, "bad_json" a braced text that
\* json.loads or a conversion rejects, "no_json" a text without braces
PlatformReplies ==
    [kind : {"raise"}, msg : ModelErrors, form : {"none"}, platform : {"unknown"}]
    \cup
    [kind : {"text"}, msg : {""}, form : {"bad_json", "no_json"},
     platform : {"unknown"}]
    \cup
    [kind : {"text"}, msg : {""}, form : {"json"},
     platform : {"windows", "linux", "mixed", "unknown"}]

CrossReplies ==
    [kind : {"raise"}, msg : ModelErrors, form : {"none"},
     is_cross_company : {FALSE}, confidence : {0}]
    \cup
    [kind : {"text"}, msg : {""}, form : {"bad_json", "no_json"},
     is_cross_company : {FALSE}, confidence : {0}]
    \cup
    [kind : {"text"}, msg : {""}, form : {"json"},
     is_cross_company : BOOLEAN, confidence : {Pct(50), Pct(80), One}]

\* "bad_types" is a JSON object whose selected_company_index is not a number
AnalyzeReplies ==
    [kind : {"raise"}, msg : ModelErrors, form : {"none"},
     selected_company_index : {0}, confidence_score : {0},
     explicit_company_mentioned : {FALSE}]
    \cup
    [kind : {"text"}, msg : {""}, form : {"bad_json", "no_json", "bad_types"},
     selected_company_index : {0}, confidence_score : {0},
     explicit_company_mentioned : {FALSE}]
    \cup
    [kind : {"text"}, msg : {""}, form : {"json"},
     selected_company_index : {-1, 1}, confidence_score : {Pct(40), Pct(85)},
     explicit_company_mentioned : BOOLEAN]

\* the embedder inside _semantic_company_matching: argmax and its similarity
SemanticReplies ==
    [kind : {"raise"}, msg : EmbedErrors, idx : {0}, sim : {0}]
    \cup
    [kind : {"ok"}, msg : {""}, idx : {0, 1}, sim : {Pct(-5), Pct(40), Pct(60)}]

Company(c, i, conf, method) ==
    [company_name |-> c.company_name, product_name |-> c.product_name,
     index |-> c.index, sourcetype |-> Some(c.sourcetype),
     confidence_score |-> conf, method |-> method, company_index |-> i,
     explicit_company |-> FALSE, is_cross_company |-> FALSE]

AllCompanies(conf, method) ==
    [company_name |-> "All Companies", product_name |-> "Cross-Company Analysis",
     index |-> "*", sourcetype |-> None,
     confidence_score |-> conf, method |-> method, company_index |-> -1,
     explicit_company |-> FALSE, is_cross_company |-> TRUE]

\* max(seq, key=...) of Python: the first element with the largest key
FirstMax(seq, Key(_)) ==
    LET i == CHOOSE i \in 1..Len(seq) :
                 /\ \A j \in 1..Len(seq) : Key(seq[j]) <= Key(seq[i])
                 /\ \A j \in 1..(i - 1) : Key(seq[j]) < Key(seq[i])
    IN  seq[i]

\* sum(1 for x in seq if P(x))
RECURSIVE Count(_, _)
Count(seq, S) ==
    IF seq = <<>> THEN 0
    ELSE (IF Head(seq) \in S THEN 1 ELSE 0) + Count(Tail(seq), S)

RECURSIVE Flatten(_)
Flatten(ss) == IF ss = <<>> THEN <<>> ELSE Head(ss) \o Flatten(Tail(ss))

Range(seq) == {seq[i] : i \in 1..Len(seq)}

\* words = [w for w in re.findall(r"\b\w+\b", query_lower) if len(w) > 2]
QueryWords(q) ==
    SelectSeq(Flatten([i \in 1..Len(q) |-> WordsOf(q[i])]), LAMBDA w : Len(w) > 2)

windows_signals == {"defender", "powershell", "registry", "eventcode", "c:\\"}
linux_signals == {"sudo", "/etc/", "/var/", "systemctl", "bash"}

\* _detect_platform_context: the "platform" of the returned context
_detect_platform_context(q, resp) ==
    IF resp.kind = "text" /\ resp.form = "json"
    THEN resp.platform
    ELSE LET win_score == Cardinality({g \in windows_signals : In(g, q)})
             linux_score == Cardinality({g \in linux_signals : In(g, q)})
         IN  IF win_score > linux_score THEN "windows"
             ELSE IF linux_score > win_score THEN "linux"
             ELSE "unknown"

\* a direct match that is only as sure as a keyword match
DirectConfidenceLow(c, platform) == Pct(90)

\* the confidence of a direct company match
DirectConfidence(c, platform) ==
    LET product_lower == LowerOf(c.product_name)
        has_linux_context == platform = "linux"
        has_windows_context == platform = "windows"
    IN  IF has_linux_context /\ "linux" \in Substrings(product_lower) THEN Pct(98)
        ELSE IF has_windows_context /\ "win" \in Substrings(product_lower) THEN Pct(98)
        ELSE IF ~has_linux_context /\ "win" \in Substrings(product_lower) THEN Pct(96)
        ELSE Pct(95)

\* weighted_score = inter * 0.3 + freq * 0.4 + domain_match * 0.3
weighted_score(words, c) ==
    LET inter == Cardinality(Range(words) \cap c.tokens)
        nwords == IF Len(words) = 0 THEN 1 ELSE Len(words)
        ndomain == IF c.domain_tokens = {} THEN 1 ELSE Cardinality(c.domain_tokens)
        overlap == Cardinality(Range(words) \cap c.domain_tokens)
    IN  inter * Pct(30) + (Count(words, c.tokens) * Pct(40)) \div nwords
                        + (overlap * Pct(30)) \div ndomain

_dynamic_keyword_company_matching(q, data, platform) ==
    LET words == QueryWords(q)
        direct == SelectSeq([i \in 1..Len(data) |-> i],
                            LAMBDA i : In(LowerOf(data[i].company_name), q))
        best_matches ==
            [k \in 1..Len(direct) |->
                [Company(data[direct[k]], direct[k] - 1,
                         DirectConfidence(data[direct[k]], platform),
                         "company_name_direct_match")
                 EXCEPT !.explicit_company = TRUE]]
        scores == [i \in 1..Len(data) |->
                     Company(data[i], i - 1, weighted_score(words, data[i]),
                             "context_keyword_match")]
    IN  IF best_matches # <<>>
        THEN FirstMax(best_matches, LAMBDA m : m.confidence_score)
        ELSE IF scores # <<>>
        THEN FirstMax(scores, LAMBDA m : m.confidence_score)
        ELSE Company(data[1], 0, Pct(10), "default_fallback")

\* a detection without fallback phrases
no_obvious_patterns == {}

obvious_patterns ==
    {"all companies", "all organizations", "enterprise-wide", "organization-wide",
     "across all companies", "across all organizations",
     "targeting all organizations"}

\* _detect_cross_company_queries: the cross-company result or None
_detect_cross_company_queries(q, data, resp) ==
    LET has_company_name ==
            \E i \in 1..Len(data) : In(LowerOf(data[i].company_name), q)
    IN  IF resp.kind = "text" /\ resp.form = "json"
        THEN IF has_company_name THEN None
             ELSE IF resp.is_cross_company /\ resp.confidence >= Pct(80)
             THEN Some(AllCompanies(resp.confidence, "llm_cross_company_detection"))
             ELSE None
        ELSE IF \E pat \in obvious_patterns : In(pat, q)
        THEN Some(AllCompanies(Pct(90), "fallback_pattern_detection"))
        ELSE None

\* re.search(pattern, query_lower) for some pattern of generic_patterns: of
\* the fragments only "monitor changes on servers" matches one
\* (monitor\s+.*\s+(on|across|from)\s+.*servers?), and no match spans
\* a join
generic_patterns_match(q) ==
    \E i \in 1..Len(q) : q[i] = "monitor changes on servers"

enterprise_indicators ==
    {"servers", "systems", "hosts", "machines", "devices", "endpoints"}

\* a resolver without the generic-query step
_detect_generic_queries_off(q, data) == None

_detect_generic_queries(q, data) ==
    LET has_company_mention ==
            \E i \in 1..Len(data) :
                In("for " \o LowerOf(data[i].company_name), q)
    IN  IF has_company_mention THEN None
        ELSE IF /\ generic_patterns_match(q)
                /\ \E ind \in enterprise_indicators : In(ind, q)
        THEN Some(AllCompanies(Pct(75), "generic_cross_company_suggestion"))
        ELSE None

\* _llm_analyze_company_context_advanced: its result, or None when it raises
\* (a selected_company_index that cannot be compared with 0)
_llm_analyze_company_context_advanced(data, resp) ==
    LET usable == resp.kind = "text" /\ resp.form \in {"json", "bad_types"}
        obj == IF usable THEN resp
               ELSE [selected_company_index |-> 0, confidence_score |-> Pct(30),
                     explicit_company_mentioned |-> FALSE]
        idx0 == obj.selected_company_index
        idx == IF 0 <= idx0 /\ idx0 < Len(data) THEN idx0 ELSE 0
        confidence == IF obj.explicit_company_mentioned
                      THEN (IF obj.confidence_score > Pct(90)
                            THEN obj.confidence_score ELSE Pct(90))
                      ELSE obj.confidence_score
    IN  IF resp.kind = "text" /\ resp.form = "bad_types" THEN None
        ELSE Some([Company(data[idx + 1], idx, confidence, "llm_analysis")
                   EXCEPT !.explicit_company = obj.explicit_company_mentioned])

\* _semantic_company_matching: its result, or None when the embedder raises
_semantic_company_matching(data, resp) ==
    IF resp.kind = "raise" THEN None
    ELSE Some(Company(data[resp.idx + 1], resp.idx, resp.sim, "semantic_matching"))

\* the end of _pick_best_company: the default entry or the best candidate
BestCandidate(cands, data) ==
    IF cands = <<>>
    THEN Company(data[1], 0, Pct(30), "default_fallback")
    ELSE FirstMax(cands, LAMBDA r : r.confidence_score)

(***************************************************************************)
(* Query texts.  A query text is a sequence of lexical tokens; the         *)
(* whitespace characters, "|", "=" and the code fence are tokens of their  *)
(* own, so that the regular expressions and splits of the code act on the  *)
(* text as they do on its characters.                                      *)
(***************************************************************************)
SP == " "
NL == "\n"
BSN == "\\n"        \* the two characters backslash, n
FENCE == "[fence]"  \* the code-fence marker (three backquotes)

IsSpace(t) == t \in {SP, NL}

RECURSIVE lstrip(_)
lstrip(s) == IF s # <<>> /\ IsSpace(Head(s)) THEN lstrip(Tail(s)) ELSE s

RECURSIVE rstrip(_)
rstrip(s) ==
    IF s # <<>> /\ IsSpace(s[Len(s)]) THEN rstrip(SubSeq(s, 1, Len(s) - 1)) ELSE s

\* str.strip()
strip(s) == rstrip(lstrip(s))

\* str.split(sep) for a one-token separator
RECURSIVE split(_, _)
split(s, sep) ==
    IF \E i \in 1..Len(s) : s[i] = sep
    THEN LET i == CHOOSE i \in 1..Len(s) :
                      s[i] = sep /\ \A j \in 1..(i - 1) : s[j] # sep
         IN  <<SubSeq(s, 1, i - 1)>> \o split(SubSeq(s, i + 1, Len(s)), sep)
    ELSE <<s>>

\* sep.join(parts)
RECURSIVE join(_, _)
join(sep, parts) ==
    IF parts = <<>> THEN <<>>
    ELSE IF Len(parts) = 1 THEN parts[1]
    ELSE parts[1] \o sep \o join(sep, Tail(parts))

\* str.startswith(prefix)
startswith(s, prefix) ==
    Len(s) >= Len(prefix) /\ SubSeq(s, 1, Len(prefix)) = prefix

\* (sub in s) for a token sequence sub
contains(s, sub) ==
    \E i \in 1..(Len(s) - Len(sub) + 1) : SubSeq(s, i, i + Len(sub) - 1) = sub

\* str.replace(sub, "")
RECURSIVE remove(_, _)
remove(s, sub) ==
    IF s = <<>> THEN <<>>
    ELSE IF startswith(s, sub) THEN remove(SubSeq(s, Len(sub) + 1, Len(s)), sub)
    ELSE <<Head(s)>> \o remove(Tail(s), sub)

\* the text after the last occurrence of sub: s.split(sub)[-1]
RECURSIVE after_last(_, _)
after_last(s, sub) ==
    IF contains(s, sub)
    THEN LET i == CHOOSE i \in 1..Len(s) : SubSeq(s, i, i + Len(sub) - 1) = sub
         IN  after_last(SubSeq(s, i + Len(sub), Len(s)), sub)
    ELSE s

index_decl(index) == <<"index", "=", index>>
sourcetype_decl(st) == <<"sourcetype", "=", st>>

cross_sourcetype_clause ==
    <<"(sourcetype", "=", "WinEventLog", SP, "OR", SP,
      "sourcetype", "=", "linux_secure", SP, "OR", SP,
      "sourcetype", "=", "syslog", SP, "OR", SP,
      "sourcetype", "=", "linux_syslog)">>

\* index.endswith(_win) or index.endswith(_linux)
EndsWinOrLinux(index) == index \in {"TechNova_win", "GreenEnergy_linux"}

\* _validate_company_context: the mandated index and sourcetype clause
_validate_company_context(comp, data) ==
    LET same == SelectSeq(data, LAMBDA c :
                    LowerOf(c.company_name) = LowerOf(comp.company_name))
    IN  IF comp.is_cross_company \/ comp.index = "*"
        THEN [index |-> "*", sourcetype_clause |-> cross_sourcetype_clause,
              needs_company_extraction |-> TRUE]
        ELSE IF ~EndsWinOrLinux(comp.index)
        THEN IF same # <<>>
             THEN [index |-> same[1].index,
                   sourcetype_clause |-> sourcetype_decl(same[1].sourcetype),
                   needs_company_extraction |-> FALSE]
             ELSE [index |-> comp.company_name \o "_win",
                   sourcetype_clause |-> sourcetype_decl("WinEventLog"),
                   needs_company_extraction |-> FALSE]
        ELSE [index |-> comp.index,
              sourcetype_clause |-> sourcetype_decl(Val(comp.sourcetype)),
              needs_company_extraction |-> FALSE]

\* the texts the language model may return for the generation prompt
ModelOutputs ==
    { \* the mandated declaration of TechNova, pipes on their own lines
      index_decl("TechNova_win") \o <<SP>> \o sourcetype_decl("WinEventLog")
        \o <<SP, "earliest", "=", "-24h", NL, "|", SP, "stats", SP, "count">>,
      \* another index, a pipe on the first line, the deprecated keyword
      index_decl("*") \o <<SP, "earliest", "=", "-7d", SP, "|", SP, "limit", SP, "10">>,
      \* fenced, no index, spaced assignment, prose after the query
      <<FENCE, "spl", NL, "search", SP, "user", SP, "=", SP, "admin", NL,
        FENCE, NL, "This", SP, "query", SP, "searches">>,
      \* the mandated index of TechNova without its sourcetype clause
      index_decl("TechNova_win") \o <<SP, "|", SP, "stats", SP, "count">>,
      \* nothing at all
      <<>> }

\* re.search(r"FENCE(?:spl|splunk)?\s*(.*?)\s*FENCE", out, re.S).group(1).strip(),
\* or out when there is no pair of fences
unfence(out) ==
    IF \E i, j \in 1..Len(out) : i < j /\ out[i] = FENCE /\ out[j] = FENCE
    THEN LET i == CHOOSE i \in 1..Len(out) :
                      out[i] = FENCE /\ \A k \in 1..(i - 1) : out[k] # FENCE
             j == CHOOSE j \in (i + 1)..Len(out) :
                      out[j] = FENCE /\ \A k \in (i + 1)..(j - 1) : out[k] # FENCE
             body == SubSeq(out, i + 1, j - 1)
             rest == IF body # <<>> /\ Head(body) = "spl" THEN Tail(body)
                     ELSE IF body # <<>> /\ Head(body) = "splunk"
                     THEN <<"unk">> \o Tail(body)
                     ELSE body
         IN  strip(rest)
    ELSE out

\* "Final validation - ensure correct index format": the repair of the
\* first line
enforce_index(spl_output, ctx, is_cross_company) ==
    LET lines == split(spl_output, NL)
        first_line == strip(lines[1])
        rest == join(<<NL>>, Tail(lines))
        decl == index_decl(ctx.index) \o <<SP>> \o ctx.sourcetype_clause \o <<SP>>
    IN  IF ~is_cross_company /\ ~startswith(first_line, index_decl(ctx.index))
        THEN IF "|" \in Range(first_line)
             THEN LET parts == split(first_line, "|")
                      search_part == parts[1]
                      pipe_part == join(<<"|">>, Tail(parts))
                      window == IF contains(search_part, <<"earliest", "=">>)
                                THEN after_last(search_part, <<"earliest", "=">>)
                                ELSE <<"earliest", "=", "-24h">>
                  IN  decl \o window \o <<NL, "|", SP>> \o pipe_part
                           \o <<NL>> \o rest
             ELSE decl \o strip(remove(remove(first_line, index_decl("*")),
                                       <<"index", "=">>))
                       \o <<NL>> \o rest
        ELSE spl_output

\* a variant whose canned query is one fixed text for every context
canned_query_fixed(request, ctx, is_cross_company) ==
    index_decl("*") \o <<SP, "earliest", "=", "-24h", NL,
                         "|", SP, "stats", SP, "count", NL,
                         "|", SP, "limit", SP, "10">>

\* the canned queries of the except branch
canned_query(request, ctx, is_cross_company) ==
    LET index_part ==
            IF is_cross_company
            THEN index_decl("*") \o <<SP>> \o cross_sourcetype_clause
            ELSE index_decl(ctx.index) \o <<SP>> \o ctx.sourcetype_clause
        company_extract ==
            IF is_cross_company
            THEN <<NL, "|", SP, "rex", SP, "field", "=", "index", SP,
                   "\"(?<company>\\w+)_\"">>
            ELSE <<>>
        q == lower(request)
    IN  IF In("failed login", q) \/ In("login fail", q)
        THEN index_part
             \o <<SP, "earliest", "=", "-24h", NL,
                  "|", SP, "search", SP, "EventCode", "=", "4625", SP, "OR", SP,
                  "match(_raw,", SP, "\"Failed password", "|",
                  "authentication failure", "|", "logon failure\")">>
             \o company_extract
             \o <<NL, "|", SP, "eval", SP, "user", "=",
                  "coalesce(User_Name, user, account, dest_user)", NL,
                  "|", SP, "eval", SP, "src", "=",
                  "coalesce(src_ip, src, Source_Network_Address, host)", NL,
                  "|", SP, "stats", SP, "count", SP, "by", SP, "user", SP, "src", NL,
                  "|", SP, "sort", SP, "-", SP, "count", NL,
                  "|", SP, "head", SP, "10">>
        ELSE IF In("defender", q) /\ In("disable", q)
        THEN index_part
             \o <<SP, "earliest", "=", "-7d", NL,
                  "|", SP, "search", SP, "(EventCode", "=", "5001", SP, "OR", SP,
                  "EventCode", "=", "5025", SP, "OR", SP, "\"Defender disabled\"",
                  SP, "OR", SP, "\"protection disabled\")">>
             \o company_extract
             \o <<NL, "|", SP, "stats", SP, "latest(_time)", SP, "as", SP,
                  "last_event", SP, "by", SP, "host", NL,
                  "|", SP, "convert", SP, "ctime(last_event)", SP, "as", SP, "Time", NL,
                  "|", SP, "sort", SP, "-", SP, "last_event">>
        ELSE index_part
             \o <<SP, "earliest", "=", "-24h">>
             \o company_extract
             \o <<NL, "|", SP, "stats", SP, "count", NL,
                  "|", SP, "sort", SP, "-", SP, "count">>

\* replies inside _generate_unified_spl_query: the exemplar embedding or the
\* model call raises, or the model returns a text
SynthReplies ==
    [kind : {"raise"}, msg : ModelErrors \cup EmbedErrors, out : {<<>>}]
    \cup
    [kind : {"text"}, msg : {""}, out : ModelOutputs]

_generate_unified_spl_query(request, comp, data, resp) ==
    LET is_cross_company == comp.is_cross_company \/ comp.index = "*"
        ctx == _validate_company_context(comp, data)
    IN  IF resp.kind = "raise"
        THEN canned_query(request, ctx, is_cross_company)
        ELSE strip(enforce_index(unfence(resp.out), ctx, is_cross_company))

(***************************************************************************)
(* validate_spl_syntax and _clean_spl_output                               *)
(***************************************************************************)
\* the issues for lines[i..], i counted from 1: enumerate(lines) with i > 0
RECURSIVE pipe_issues(_, _)
pipe_issues(lines, i) ==
    IF i > Len(lines) THEN <<>>
    ELSE LET line == strip(lines[i])
         IN  (IF line # <<>> /\ Head(line) # "|" /\ Head(line) # "#"
              THEN <<"Line " \o ToString(i) \o ": missing pipe |">>
              ELSE <<>>)
             \o pipe_issues(lines, i + 1)

\* validate_spl_syntax; the lines are split at the two characters
\* backslash, n
validate_spl_syntax(q) ==
    LET lines == split(q, BSN)
    IN  (IF ~contains(q, <<"index", "=">>) /\ ~contains(lines[1], <<"|", SP>>)
         THEN <<"Query should specify an index (e.g., index=main)">>
         ELSE <<>>)
        \o pipe_issues(lines, 2)
        \o (IF "=" \in Range(q) /\ contains(q, <<SP, "=", SP>>)
            THEN <<"Use = without spaces for field assignments">>
            ELSE <<>>)

\* re.sub(r"FENCE(?:spl|splunk)?\n?", "", s)
RECURSIVE remove_fences(_)
remove_fences(s) ==
    IF s = <<>> THEN <<>>
    ELSE IF Head(s) = FENCE
    THEN LET a == Tail(s)
             b == IF a # <<>> /\ Head(a) = "spl" THEN Tail(a)
                  ELSE IF a # <<>> /\ Head(a) = "splunk" THEN <<"unk">> \o Tail(a)
                  ELSE a
             c == IF b # <<>> /\ Head(b) = NL THEN Tail(b) ELSE b
         IN  remove_fences(c)
    ELSE <<Head(s)>> \o remove_fences(Tail(s))

\* re.sub(r"\s*\|\s*", " | ", s)
RECURSIVE space_pipes(_)
space_pipes(s) ==
    IF s = <<>> THEN <<>>
    ELSE LET r == lstrip(s)
         IN  IF r # <<>> /\ Head(r) = "|"
             THEN <<SP, "|", SP>> \o space_pipes(lstrip(Tail(r)))
             ELSE <<Head(s)>> \o space_pipes(Tail(s))

\* re.sub(r"\s*=\s*", "=", s)
RECURSIVE tighten_assignments(_)
tighten_assignments(s) ==
    IF s = <<>> THEN <<>>
    ELSE LET r == lstrip(s)
         IN  IF r # <<>> /\ Head(r) = "="
             THEN <<"=">> \o tighten_assignments(lstrip(Tail(r)))
             ELSE <<Head(s)>> \o tighten_assignments(Tail(s))

\* the lines the loop skips
is_explanatory(line) ==
    \/ startswith(line, <<"This", SP, "query">>)
    \/ startswith(line, <<"The", SP, "above">>)
    \/ startswith(line, <<"Note:">>)
    \/ startswith(line, <<"Explanation:">>)
    \/ startswith(line, <<"This", SP, "SPL">>)
    \/ startswith(line, <<"Generated">>)
    \/ startswith(line, <<"**">>)
    \/ line = <<>>

\* "Join lines with proper formatting"
RECURSIVE join_lines(_, _)
join_lines(result, rest) ==
    IF rest = <<>> THEN result
    ELSE join_lines(result \o (IF Head(Head(rest)) = "|" THEN <<NL>> ELSE <<SP>>)
                           \o Head(rest),
                    Tail(rest))

IsLimit(t) == t \in {"limit", "LIMIT", "Limit"}
IsNumber(t) == t \in {"5", "10"}

\* re.sub(r"\|\s*limit\s+(\d+)", r"| head \1", s, flags=re.IGNORECASE)
RECURSIVE limit_to_head(_)
limit_to_head(s) ==
    IF s = <<>> THEN <<>>
    ELSE LET a == lstrip(Tail(s))
             b == IF a = <<>> THEN <<>> ELSE lstrip(Tail(a))
         IN  IF /\ Head(s) = "|"
                /\ a # <<>> /\ IsLimit(Head(a))
                /\ Len(a) >= 2 /\ IsSpace(a[2])
                /\ b # <<>> /\ IsNumber(Head(b))
             THEN <<"|", SP, "head", SP, Head(b)>> \o limit_to_head(Tail(b))
             ELSE <<Head(s)>> \o limit_to_head(Tail(s))

_clean_spl_output(q) ==
    LET unfenced == strip(remove_fences(remove_fences(q)))
        spaced == tighten_assignments(space_pipes(unfenced))
        lines == split(spaced, NL)
        stripped == [i \in 1..Len(lines) |-> strip(lines[i])]
        clean_lines == SelectSeq(stripped, LAMBDA line : ~is_explanatory(line))
        result == IF Len(clean_lines) > 1
                  THEN join_lines(clean_lines[1], Tail(clean_lines))
                  ELSE join(<<SP>>, clean_lines)
    IN  limit_to_head(strip(result))

(***************************************************************************)
(* The process: the SPLService objects and the requests served             *)
(***************************************************************************)
\* the SPLService objects of one process: the lazily created global of
\* routers/spl.py and the attribute of the ChatService of routers/chat.py
Instances == {"spl_router", "chat_service"}

\* the routes whose handlers call is_splunk_related
Routes == {"/api/spl/generate-spl", "/api/spl/check-relevance", "/api/chat"}

InstanceOf(route) ==
    IF route = "/api/chat" THEN "chat_service" ELSE "spl_router"

Requests == 1..MaxRequests

\* a request not yet received
NewRequest == [pc |-> "new", self |-> "none", calls |-> 0]

\* a request whose handler has returned
FinishedRequest == [pc |-> "finished", self |-> "none", calls |-> 0]

(***************************************************************************)
(* The service as a state machine.  Parameters and locals are cleared once *)
(* the code does not read them again.                                      *)
(***************************************************************************)
Init ==
    /\ \E l \in _load_data_files :
          company_data = l.company_data /\ qa_pairs = l.qa_pairs
    /\ anchor_embs = "None"
    /\ op = "idle"
    /\ pc = "idle"
    /\ user_query = <<>>
    /\ verdict = None
    /\ dyn = None
    /\ candidates = <<>>
    /\ company = None
    /\ improved = None
    /\ extracted = <<>>
    /\ spl_query = None
    /\ response = None
    /\ raised = None
    /\ exc = None
    /\ reply = None
    /\ trace = <<>>
    /\ spl_service = "None"
    /\ anchor_cache = [i \in Instances |-> "None"]
    /\ requests = [r \in Requests |-> NewRequest]
    /\ populated = [i \in Instances |-> 0]
    /\ chat_service = None

service == <<company_data, qa_pairs>>
process == <<spl_service, anchor_cache, requests, populated, chat_service>>
locals == <<verdict, dyn, candidates, company, improved, extracted, spl_query>>

\* a caller invokes operation o with text t
Call(o, first, t) ==
    /\ op = "idle"
    /\ op' = o
    /\ pc' = first
    /\ user_query' = t
    /\ UNCHANGED <<service, process, anchor_embs, locals, response, raised, exc,
                   reply, trace>>

CallGenerate == \E t \in Texts : Call("generate_spl_query", "classify", t)
CallCheckRelevance == \E t \in Texts : Call("check_relevance", "classify", t)
CallPickBestCompany == \E t \in Texts : Call("_pick_best_company", "resolve", t)
CallDetectCross ==
    \E t \in Texts : Call("_detect_cross_company_queries", "detect_cross", t)

\* the operation has returned or raised; the caller takes the outcome
Return ==
    /\ pc = "done"
    /\ op' = "idle"
    /\ pc' = "idle"
    /\ user_query' = <<>>
    /\ verdict' = None
    /\ dyn' = None
    /\ candidates' = <<>>
    /\ company' = None
    /\ improved' = None
    /\ extracted' = <<>>
    /\ spl_query' = None
    /\ response' = None
    /\ raised' = None
    /\ exc' = None
    /\ reply' = None
    /\ trace' = <<>>
    /\ UNCHANGED <<service, process, anchor_embs>>

\* a failure response that drops the exception's message
FailedWithoutMessage(msg) ==
    SPLResponse(FALSE, None, None, None, None, None, None, None, <<>>, None)

Failed(msg) ==
    SPLResponse(FALSE, None, None, None, None, None, None, None, <<>>, Some(msg))

Rejected(v) ==
    SPLResponse(FALSE, None, None, None, None, Some(v.confidence),
                Some(v.method), None, <<>>, Some("Not Splunk-related"))

\* a service in which no operation has a top-level handler
NoTopLevelHandler(o) == FALSE

\* generate_spl_query catches every exception of its try block
\* ("except Exception as e"); the other operations have no handler
TopLevelCatches(o) == o = "generate_spl_query"

\* an exception with message msg leaves the step in progress
Propagate(msg) ==
    /\ pc' = "done"
    /\ exc' = Some(msg)
    /\ IF TopLevelCatches(op)
       THEN response' = Some(Failed(msg)) /\ raised' = None
       ELSE response' = None /\ raised' = Some(msg)

\* the operation goes on to position next
Goto(next) ==
    /\ pc' = next
    /\ exc' = None
    /\ UNCHANGED <<response, raised>>

\* a generate_spl_query that goes on whatever the verdict is
ClassifyReturnsNoShortCircuit(v) ==
    /\ verdict' = Some(v)
    /\ raised' = None
    /\ exc' = None
    /\ IF op = "check_relevance"
       THEN pc' = "done" /\ response' = Some(RelevanceCheckResponse(v))
       ELSE pc' = "resolve" /\ response' = None

\* is_splunk_related returns v to its caller
ClassifyReturns(v) ==
    /\ verdict' = Some(v)
    /\ raised' = None
    /\ exc' = None
    /\ IF op = "check_relevance"
       THEN pc' = "done" /\ response' = Some(RelevanceCheckResponse(v))
       ELSE IF ~v.is_related
       THEN pc' = "done" /\ response' = Some(Rejected(v))
       ELSE pc' = "resolve" /\ response' = None

\* stages 1-4 of is_splunk_related: no adapter is called
Classify ==
    /\ pc = "classify"
    /\ trace' = Append(trace, "Classify")
    /\ reply' = None
    /\ LET kv == KeywordVerdict(lower(user_query))
       IN  IF kv # None
           THEN ClassifyReturns(Val(kv))
           ELSE Goto("stage5") /\ UNCHANGED verdict
    /\ UNCHANGED <<service, process, anchor_embs, op, user_query, dyn, candidates,
                   company, improved, extracted, spl_query>>

\* stage 5: _ensure_anchor_cache (the embedder is called for every anchor
\* while the cache is empty), the query embedding and the threshold
EmbeddingStage ==
    /\ pc = "stage5"
    /\ trace' = Append(trace, "EmbeddingStage")
    /\ \E r \in ClassifyEmbedReplies :
        /\ r.at = "anchors" => anchor_embs = "None"
        /\ reply' = Some(r)
        /\ IF r.kind = "raise" /\ r.at = "anchors"
           THEN /\ anchor_embs' = anchor_embs
                /\ Propagate(r.msg)
                /\ UNCHANGED verdict
           ELSE /\ anchor_embs' = "cached"
                /\ IF r.kind = "raise"
                   THEN Propagate(r.msg) /\ UNCHANGED verdict
                   ELSE IF r.score >= embedding_threshold(op)
                   THEN ClassifyReturns(Verdict(TRUE, r.score, "embedding_match"))
                   ELSE Goto("stage6") /\ UNCHANGED verdict
    /\ UNCHANGED <<service, process, op, user_query, dyn, candidates, company,
                   improved, extracted, spl_query>>

\* stage 6: _llm_is_splunk_related (one model call)
IntentStage ==
    /\ pc = "stage6"
    /\ trace' = Append(trace, "IntentStage")
    /\ \E r \in IntentReplies :
        /\ reply' = Some(r)
        /\ LET v == _llm_is_splunk_related(r)
           IN  IF v = None
               THEN Propagate("'is_splunk_related'") /\ UNCHANGED verdict
               ELSE ClassifyReturns(Val(v))
    /\ UNCHANGED <<service, process, anchor_embs, op, user_query, dyn, candidates,
                   company, improved, extracted, spl_query>>

(***************************************************************************)
(* _pick_best_company, one step per adapter call                           *)
(***************************************************************************)
\* _pick_best_company returns res to its caller
ResolveReturns(res) ==
    /\ company' = Some(res)
    /\ dyn' = None
    /\ candidates' = <<>>
    /\ raised' = None
    /\ exc' = None
    /\ IF op = "_pick_best_company"
       THEN pc' = "done" /\ response' = Some(res)
       ELSE pc' = "rewrite" /\ response' = None

\* the result for an empty self.company_data
empty_catalog_fallback ==
    Company(DefaultCompany, 0, Pct(50), "fallback")

\* strategy A: platform detection (one model call) and keyword matching
ResolveDirect ==
    /\ pc = "resolve"
    /\ trace' = Append(trace, "ResolveDirect")
    /\ IF company_data = <<>>
       THEN reply' = None /\ ResolveReturns(empty_catalog_fallback)
       ELSE \E r \in PlatformReplies :
              LET q == lower(user_query)
                  d == _dynamic_keyword_company_matching(
                           q, company_data, _detect_platform_context(q, r))
              IN  /\ reply' = Some(r)
                  /\ IF d.method \in {"company_name_direct_match", "platform_match"}
                     THEN ResolveReturns(d)
                     ELSE /\ dyn' = Some(d)
                          /\ Goto("resolve_cross")
                          /\ UNCHANGED <<candidates, company>>
    /\ UNCHANGED <<service, process, anchor_embs, op, user_query, verdict,
                   improved, extracted, spl_query>>

\* steps 2 and 2.5: cross-company detection (one model call), then the
\* generic-query patterns; candidates starts with dyn
ResolveCross ==
    /\ pc = "resolve_cross"
    /\ trace' = Append(trace, "ResolveCross")
    /\ \E r \in CrossReplies :
        LET q == lower(user_query)
            cross_company_result == _detect_cross_company_queries(q, company_data, r)
            generic_result == _detect_generic_queries(q, company_data)
        IN  /\ reply' = Some(r)
            /\ IF cross_company_result # None
               THEN ResolveReturns(Val(cross_company_result))
               ELSE IF generic_result # None
               THEN ResolveReturns(Val(generic_result))
               ELSE /\ candidates' = (IF dyn # None THEN <<Val(dyn)>> ELSE <<>>)
                    /\ dyn' = None
                    /\ Goto("resolve_llm")
                    /\ UNCHANGED company
    /\ UNCHANGED <<service, process, anchor_embs, op, user_query, verdict,
                   improved, extracted, spl_query>>

\* strategy B: whole-catalog analysis (one model call)
ResolveAnalyze ==
    /\ pc = "resolve_llm"
    /\ trace' = Append(trace, "ResolveAnalyze")
    /\ \E r \in AnalyzeReplies :
        LET llm_res == _llm_analyze_company_context_advanced(company_data, r)
        IN  /\ reply' = Some(r)
            /\ IF llm_res # None /\ Val(llm_res).explicit_company
               THEN ResolveReturns(Val(llm_res))
               ELSE /\ candidates' = (IF llm_res # None
                                      THEN Append(candidates, Val(llm_res))
                                      ELSE candidates)
                    /\ Goto("resolve_sem")
                    /\ UNCHANGED <<dyn, company>>
    /\ UNCHANGED <<service, process, anchor_embs, op, user_query, verdict,
                   improved, extracted, spl_query>>

\* strategy C without the try/except around _semantic_company_matching
ResolveSemanticUnguarded ==
    /\ pc = "resolve_sem"
    /\ trace' = Append(trace, "ResolveSemantic")
    /\ \E r \in SemanticReplies :
        /\ r.idx < Len(company_data)
        /\ reply' = Some(r)
        /\ IF r.kind = "raise"
           THEN Propagate(r.msg) /\ UNCHANGED <<dyn, candidates, company>>
           ELSE ResolveReturns(BestCandidate(
                    Append(candidates,
                           Val(_semantic_company_matching(company_data, r))),
                    company_data))
    /\ UNCHANGED <<service, process, anchor_embs, op, user_query, verdict,
                   improved, extracted, spl_query>>

\* strategy C: embedding similarity, then the choice among the candidates
ResolveSemantic ==
    /\ pc = "resolve_sem"
    /\ trace' = Append(trace, "ResolveSemantic")
    /\ \E r \in SemanticReplies :
        LET sem == _semantic_company_matching(company_data, r)
            all == IF sem # None THEN Append(candidates, Val(sem)) ELSE candidates
        IN  /\ r.idx < Len(company_data)
            /\ reply' = Some(r)
            /\ ResolveReturns(BestCandidate(all, company_data))
    /\ UNCHANGED <<service, process, anchor_embs, op, user_query, verdict,
                   improved, extracted, spl_query>>

\* _detect_cross_company_queries called on its own
DetectCross ==
    /\ pc = "detect_cross"
    /\ trace' = Append(trace, "DetectCross")
    /\ \E r \in CrossReplies :
        /\ reply' = Some(r)
        /\ response' = Some(_detect_cross_company_queries(
                                lower(user_query), company_data, r))
    /\ pc' = "done"
    /\ UNCHANGED <<service, process, anchor_embs, op, user_query, locals, raised, exc>>

(***************************************************************************)
(* generate_spl_query after the context is chosen                          *)
(***************************************************************************)
\* texts prompt_fixer may return: one that the canned queries recognise as
\* a failed-login request and one that they do not
ImprovedTexts == {<<"failed login">>, <<"sudo">>}

PromptFixerReplies ==
    [kind : {"raise"}, msg : ModelErrors, text : {<<>>}]
    \cup
    [kind : {"text"}, msg : {""}, text : ImprovedTexts]

\* improved = self.prompt_fixer(user_query) (one model call); user_query is
\* not read after it
Rewrite ==
    /\ pc = "rewrite"
    /\ trace' = Append(trace, "Rewrite")
    /\ \E r \in PromptFixerReplies :
        /\ reply' = Some(r)
        /\ IF r.kind = "raise"
           THEN Propagate(r.msg) /\ UNCHANGED <<improved, user_query>>
           ELSE /\ improved' = Some(r.text)
                /\ user_query' = <<>>
                /\ Goto("retrieve")
    /\ UNCHANGED <<service, process, anchor_embs, op, verdict, dyn, candidates,
                   company, extracted, spl_query>>

\* what happens inside the inner try: the vector search, the reranker, the
\* exemplar embedding or an extraction call raises, or all return
RetrieveReplies ==
    [kind : {"search_raise", "rerank_raise", "embed_raise", "model_raise", "ok"},
     docs : 0..MaxDocs]

\* partials of _generate_partial_answers, [] when something raised before
partial_answers(r, qa) ==
    IF r.kind = "ok" /\ r.docs > 0 /\ qa > 0
    THEN [i \in 1..r.docs |-> "partial answer"]
    ELSE <<>>

\* a retrieval without the inner try/except: an adapter failure leaves the
\* stage as an exception
RetrieveWithoutTry ==
    /\ pc = "retrieve"
    /\ trace' = Append(trace, "Retrieve")
    /\ \E r \in RetrieveReplies :
        /\ r.kind = "search_raise" => r.docs = 0
        /\ r.kind = "rerank_raise" => r.docs > 0
        /\ r.kind \in {"embed_raise", "model_raise"} => r.docs > 0 /\ qa_pairs > 0
        /\ reply' = Some(r)
        /\ extracted' = partial_answers(r, qa_pairs)
        /\ IF r.kind = "ok" THEN Goto("synth") ELSE Propagate("RetrievalError")
    /\ UNCHANGED <<service, process, anchor_embs, op, user_query, verdict, dyn,
                   candidates, company, improved, spl_query>>

\* select_top_k and _generate_partial_answers inside try/except
Retrieve ==
    /\ pc = "retrieve"
    /\ trace' = Append(trace, "Retrieve")
    /\ \E r \in RetrieveReplies :
        /\ r.kind = "search_raise" => r.docs = 0
        /\ r.kind = "rerank_raise" => r.docs > 0
        /\ r.kind \in {"embed_raise", "model_raise"} => r.docs > 0 /\ qa_pairs > 0
        /\ reply' = Some(r)
        /\ extracted' = partial_answers(r, qa_pairs)
    /\ Goto("synth")
    /\ UNCHANGED <<service, process, anchor_embs, op, user_query, verdict, dyn,
                   candidates, company, improved, spl_query>>

\* spl_query = self._generate_unified_spl_query(improved, company, ...)
\* (the exemplar embedding and one model call)
Synthesize ==
    /\ pc = "synth"
    /\ trace' = Append(trace, "Synthesize")
    /\ \E r \in SynthReplies :
        /\ r.msg \in EmbedErrors => qa_pairs > 0
        /\ reply' = Some(r)
        /\ spl_query' = Some(_generate_unified_spl_query(
                                 Val(improved), Val(company), company_data, r))
    /\ improved' = None
    /\ extracted' = <<>>
    /\ Goto("validate")
    /\ UNCHANGED <<service, process, anchor_embs, op, user_query, verdict, dyn,
                   candidates, company>>

\* validate_spl_syntax, _clean_spl_output and the successful SPLResponse
Validate ==
    /\ pc = "validate"
    /\ trace' = Append(trace, "Validate")
    /\ reply' = None
    /\ LET issues == validate_spl_syntax(Val(spl_query))
           clean_spl == _clean_spl_output(Val(spl_query))
           c == Val(company)
       IN  response' = Some(SPLResponse(
               TRUE, Some(clean_spl),
               Some(c.company_name \o " - " \o c.product_name),
               Some(c.index), c.sourcetype, Some(c.confidence_score),
               Some(c.method), Some(issues = <<>>), issues, None))
    /\ pc' = "done"
    /\ UNCHANGED <<service, process, anchor_embs, op, user_query, locals, raised, exc>>

Next ==
    \/ CallGenerate
    \/ CallCheckRelevance
    \/ CallPickBestCompany
    \/ CallDetectCross
    \/ Classify
    \/ EmbeddingStage
    \/ IntentStage
    \/ ResolveDirect
    \/ ResolveCross
    \/ ResolveAnalyze
    \/ ResolveSemantic
    \/ DetectCross
    \/ Rewrite
    \/ Retrieve
    \/ Synthesize
    \/ Validate
    \/ Return

Spec == Init /\ [][Next]_vars

(***************************************************************************)
(* _clean_spl_output as an operation of its own: a caller passes a query    *)
(* text and takes the cleaned text.                                        *)
(***************************************************************************)
MaxTokens == 4

\* the lexical tokens of the query texts passed to _clean_spl_output
CleanTokens == {"This", "query", "limit", "10", "|", "=", SP, NL, FENCE}

\* spl_query: str, the texts of at most MaxTokens tokens
QueryTexts == UNION {[1..n -> CleanTokens] : n \in 0..MaxTokens}

\* a caller invokes _clean_spl_output(spl_query)
CallClean ==
    /\ op = "idle"
    /\ op' = "_clean_spl_output"
    /\ pc' = "clean"
    /\ \E x \in QueryTexts : spl_query' = Some(x)
    /\ UNCHANGED <<service, process, anchor_embs, user_query, verdict, dyn, candidates,
                   company, improved, extracted, response, raised, exc,
                   reply, trace>>

\* the body of _clean_spl_output; the function returns result
Clean ==
    /\ pc = "clean"
    /\ response' = Some(_clean_spl_output(Val(spl_query)))
    /\ pc' = "done"
    /\ UNCHANGED <<service, process, anchor_embs, op, user_query, locals, raised, exc,
                   reply, trace>>

CleanNext ==
    \/ CallClean
    \/ Clean
    \/ Return

CleanSpec == Init /\ [][CleanNext]_vars

(***************************************************************************)
(* validate_spl_syntax as an operation of its own: a caller passes a query *)
(* text and takes the list of issues.                                      *)
(***************************************************************************)
\* the lexical tokens of the query texts passed to validate_spl_syntax
ValidateTokens == {"index", "stats", "=", "|", "#", SP, NL, BSN}

\* spl_query: str, the texts of at most MaxTokens tokens
ValidateTexts == UNION {[1..n -> ValidateTokens] : n \in 0..MaxTokens}

\* a caller invokes validate_spl_syntax(spl_query)
CallValidate ==
    /\ op = "idle"
    /\ op' = "validate_spl_syntax"
    /\ pc' = "issues"
    /\ \E x \in ValidateTexts : spl_query' = Some(x)
    /\ UNCHANGED <<service, process, anchor_embs, user_query, verdict, dyn, candidates,
                   company, improved, extracted, response, raised, exc,
                   reply, trace>>

\* the body of validate_spl_syntax; the function returns issues
ValidateSyntax ==
    /\ pc = "issues"
    /\ response' = Some(validate_spl_syntax(Val(spl_query)))
    /\ pc' = "done"
    /\ UNCHANGED <<service, process, anchor_embs, op, user_query, locals, raised, exc,
                   reply, trace>>

ValidateNext ==
    \/ CallValidate
    \/ ValidateSyntax
    \/ Return

ValidateSpec == Init /\ [][ValidateNext]_vars

(***************************************************************************)
(* Requests served at the same time.  The routers obtain their SPLService  *)
(* object and call is_splunk_related; _ensure_anchor_cache takes no lock,  *)
(* so the steps of requests on one object interleave at its statements:    *)
(* the test of self._anchor_embs, the embedding of the anchors, the        *)
(* assignment.  Stages 1-4 and the later stages touch no shared state and  *)
(* are not followed here.                                                  *)
(***************************************************************************)
\* the variables of the operation followed by Spec
followed == <<anchor_embs, op, pc, user_query, locals, response, raised,
              exc, reply, trace>>

\* a handler receives request r: get_spl_service() creates the global
\* object on first use, and stages 1-4 of is_splunk_related answer or go on
\* to stage 5.  /api/chat calls is_splunk_related and then
\* generate_spl_query, which calls it again.
Arrive(r) ==
    /\ requests[r].pc = "new"
    /\ \E route \in Routes, t \in Texts :
        /\ spl_service' = IF route = "/api/chat" THEN spl_service
                          ELSE "SPLService"
        /\ requests' = [requests EXCEPT ![r] =
               IF KeywordVerdict(lower(t)) # None
               THEN FinishedRequest
               ELSE [pc |-> "ensure", self |-> InstanceOf(route),
                     calls |-> IF route = "/api/chat" THEN 2 ELSE 1]]
    /\ UNCHANGED <<service, followed, chat_service, anchor_cache, populated>>

\* _ensure_anchor_cache: if self._anchor_embs is None
CheckCache(r) ==
    /\ requests[r].pc = "ensure"
    /\ requests' = [requests EXCEPT ![r].pc =
           IF anchor_cache[requests[r].self] = "None"
           THEN "embed_anchors" ELSE "embed_query"]
    /\ UNCHANGED <<service, followed, chat_service, spl_service, anchor_cache, populated>>

\* np.array([embed_query(a) for a in self.splunk_intent_anchors]): one
\* batch of NumAnchors embedder calls, which may raise
EmbedAnchors(r) ==
    /\ requests[r].pc = "embed_anchors"
    /\ \E kind \in {"ok", "raise"} :
        requests' = [requests EXCEPT ![r] =
           IF kind = "ok" THEN [@ EXCEPT !.pc = "assign"] ELSE FinishedRequest]
    /\ UNCHANGED <<service, followed, chat_service, spl_service, anchor_cache, populated>>

\* self._anchor_embs = the array just computed
AssignCache(r) ==
    /\ requests[r].pc = "assign"
    /\ anchor_cache' = [anchor_cache EXCEPT ![requests[r].self] = "cached"]
    /\ populated' = [populated EXCEPT ![requests[r].self] = @ + 1]
    /\ requests' = [requests EXCEPT ![r].pc = "embed_query"]
    /\ UNCHANGED <<service, followed, chat_service, spl_service>>

\* the rest of the call: the query embedding (which may raise), the
\* threshold and stage 6; /api/chat goes on to generate_spl_query, and so
\* to a second call of is_splunk_related, when the text was found related
\* with a confidence above 0.6
EmbedQuery(r) ==
    /\ requests[r].pc = "embed_query"
    /\ \E again \in BOOLEAN :
        requests' = [requests EXCEPT ![r] =
           IF again /\ requests[r].calls > 1
           THEN [@ EXCEPT !.pc = "ensure", !.calls = @ - 1]
           ELSE FinishedRequest]
    /\ UNCHANGED <<service, followed, chat_service, spl_service, anchor_cache, populated>>

AnchorNext ==
    \/ \E r \in Requests : Arrive(r)
    \/ \E r \in Requests : CheckCache(r)
    \/ \E r \in Requests : EmbedAnchors(r)
    \/ \E r \in Requests : AssignCache(r)
    \/ \E r \in Requests : EmbedQuery(r)

AnchorSpec == Init /\ [][AnchorNext]_vars

(***************************************************************************)
(* services/chat_service.py: ChatService.process_message                   *)
(***************************************************************************)
\* the return values of process_message, by their fixed leading text
SPLGeneratedReply == "SPL Query Generated"
SPLFailedReply == "SPL Generation Failed"
NotRelatedReply ==
    "This input is not related to Splunk. Please provide a Splunk-related request, such as log analysis, SPL commands, or search queries."
NoClientReply ==
    "I can help you with Splunk queries, but I need a properly configured API client for general questions."
ChatErrorReply == "Sorry, I encountered an error processing your message: "

\* is_splunk_related(query, embedding_threshold) as one call: the verdict it
\* returns, or the exception that leaves it, for the embedder's reply er and
\* the intent model's reply ir
is_splunk_related(query, threshold, er, ir) ==
    LET kv == KeywordVerdict(lower(query))
    IN  IF kv # None THEN [kind |-> "return", v |-> kv, msg |-> ""]
        ELSE IF er.kind = "raise"
        THEN [kind |-> "raise", v |-> None, msg |-> er.msg]
        ELSE IF er.score >= threshold
        THEN [kind |-> "return",
              v |-> Some(Verdict(TRUE, er.score, "embedding_match")), msg |-> ""]
        ELSE LET v == _llm_is_splunk_related(ir)
             IN  IF v = None
                 THEN [kind |-> "raise", v |-> None, msg |-> "'is_splunk_related'"]
                 ELSE [kind |-> "return", v |-> v, msg |-> ""]

\* the replies of the adapters that a call does not reach
NoEmbedReply == [kind |-> "ok", at |-> "none", msg |-> "", score |-> 0]
NoIntentReply ==
    [kind |-> "text", msg |-> "", form |-> "no_json", keys |-> FALSE,
     is_splunk_related |-> FALSE, confidence |-> 0]

\* "if is_related" without the confidence bound
splunk_detected_any(is_related, confidence) == is_related

\* "if is_related and confidence > 0.6"
splunk_detected(is_related, confidence) ==
    is_related /\ confidence > Pct(60)

\* what generate_spl_query returns to process_message: a successful
\* response, a rejection, or the failure response of its handler
GenerateResults ==
    {SPLResponse(TRUE, Some(index_decl("TechNova_win")),
                 Some("TechNova - Windows"), Some("TechNova_win"),
                 Some("WinEventLog"), Some(Pct(95)),
                 Some("company_name_direct_match"), Some(TRUE), <<>>, None),
     Rejected(Verdict(FALSE, 0, "llm_intent"))}
    \cup {Failed(msg) : msg \in ModelErrors}

\* replies of self.client.chat.completions.create: the call raises, the
\* message has content None, or it has a text
ChatReplies ==
    [kind : {"raise"}, msg : ModelErrors, content : {None}]
    \cup
    [kind : {"ok"}, msg : {""}, content : {None, Some(" Hello! ")}]

\* chat_completion.choices[0].message.content.strip()
chat_content(r) == IF Val(r.content) = " Hello! " THEN "Hello!" ELSE Val(r.content)

\* ChatService.__init__: SPLService() or None on an exception, the Groq
\* client or None without a key or on an exception
ChatServiceInit ==
    /\ chat_service = None
    /\ op = "idle"
    /\ \E s \in {"SPLService", "None"}, c \in {"Groq", "None"} :
          chat_service' = Some([spl_service |-> s, client |-> c])
    /\ UNCHANGED <<service, followed, spl_service, anchor_cache, requests,
                   populated>>

\* a caller awaits process_message(message); "if self.spl_service:"
CallProcessMessage ==
    /\ op = "idle"
    /\ chat_service # None
    /\ op' = "process_message"
    /\ \E t \in Texts : user_query' = t
    /\ pc' = IF Val(chat_service).spl_service # "None" THEN "relevance"
             ELSE "general_chat"
    /\ UNCHANGED <<service, process, anchor_embs, locals, response, raised, exc,
                   reply, trace>>

\* step 1: self.spl_service.is_splunk_related(message), the test of the
\* verdict, the rejection, and "except Exception as e" for a raising call
ChatRelevance ==
    /\ pc = "relevance"
    /\ trace' = Append(trace, "is_splunk_related")
    /\ \E kv \in {KeywordVerdict(lower(user_query))} :
       \E er \in IF kv # None THEN {NoEmbedReply} ELSE ClassifyEmbedReplies :
       \E ir \in IF kv = None /\ er.kind = "ok" /\ er.score < Pct(30)
                 THEN IntentReplies ELSE {NoIntentReply} :
       \E res \in {is_splunk_related(user_query, Pct(30), er, ir)} :
        /\ er.at = "anchors" => anchor_embs = "None"
        /\ reply' = IF kv # None THEN None
                    ELSE IF er.kind = "ok" /\ er.score < Pct(30) THEN Some(ir)
                    ELSE Some(er)
        /\ anchor_embs' = IF kv = None /\ ~(er.kind = "raise" /\ er.at = "anchors")
                          THEN "cached" ELSE anchor_embs
        /\ IF res.kind = "raise"
           THEN /\ exc' = Some(res.msg)
                /\ pc' = "general_chat"
                /\ UNCHANGED <<verdict, response>>
           ELSE /\ exc' = None
                /\ verdict' = res.v
                /\ IF splunk_detected(Val(res.v).is_related,
                                      Val(res.v).confidence)
                   THEN pc' = "prompt_fixer" /\ UNCHANGED response
                   ELSE /\ pc' = "done"
                        /\ response' = Some(NotRelatedReply)
    /\ UNCHANGED <<service, process, op, user_query, dyn, candidates, company,
                   improved, extracted, spl_query, raised>>

\* step 2: improved_query = self.spl_service.prompt_fixer(message) (one
\* model call); an exception is caught by "except Exception as e"
ChatPromptFixer ==
    /\ pc = "prompt_fixer"
    /\ trace' = Append(trace, "prompt_fixer")
    /\ \E r \in PromptFixerReplies :
        /\ reply' = Some(r)
        /\ IF r.kind = "raise"
           THEN /\ exc' = Some(r.msg)
                /\ pc' = "general_chat"
                /\ UNCHANGED improved
           ELSE /\ exc' = None
                /\ improved' = Some(r.text)
                /\ pc' = "generate"
    /\ UNCHANGED <<service, process, anchor_embs, op, user_query, verdict, dyn,
                   candidates, company, extracted, spl_query, response, raised>>

\* step 3: result = self.spl_service.generate_spl_query(message) and the
\* reply built from it
ChatGenerate ==
    /\ pc = "generate"
    /\ trace' = Append(trace, "generate_spl_query")
    /\ \E result \in GenerateResults :
        /\ reply' = Some(result)
        /\ response' = Some(IF result.success THEN SPLGeneratedReply
                            ELSE SPLFailedReply)
    /\ pc' = "done"
    /\ UNCHANGED <<service, process, anchor_embs, op, user_query, locals, raised,
                   exc>>

\* general chat: the fixed reply without a client, the model's answer, or
\* the apology when the call or the reading of its content raises
ChatGeneral ==
    /\ pc = "general_chat"
    /\ IF Val(chat_service).client = "None"
       THEN /\ response' = Some(NoClientReply)
            /\ UNCHANGED <<reply, trace>>
       ELSE /\ trace' = Append(trace, "chat.completions.create")
            /\ \E r \in ChatReplies :
                /\ reply' = Some(r)
                /\ response' = Some(IF r.kind = "raise" \/ r.content = None
                                    THEN ChatErrorReply
                                    ELSE chat_content(r))
    /\ pc' = "done"
    /\ UNCHANGED <<service, process, anchor_embs, op, user_query, locals, raised,
                   exc>>

ChatNext ==
    \/ ChatServiceInit
    \/ CallProcessMessage
    \/ ChatRelevance
    \/ ChatPromptFixer
    \/ ChatGenerate
    \/ ChatGeneral
    \/ Return

ChatSpec == Init /\ [][ChatNext]_vars

(***************************************************************************)
(* Properties of generate_spl_query                                        *)
(***************************************************************************)
\* C1: generate_spl_query never raises to its caller: it always returns a
\* response, and when an exception leaves a stage the response has
\* success = False and carries the exception's message as error.
C1_GenerateNeverRaises ==
    op = "generate_spl_query" =>
        /\ raised = None
        /\ pc = "done" => response # None /\ Val(response).success \in BOOLEAN
        /\ exc # None =>
              /\ pc = "done"
              /\ Val(response).success = FALSE
              /\ Val(response).error = exc

\* the language model raised inside prompt_fixer and generate_spl_query
\* has returned
C1_Witness ==
    /\ op = "generate_spl_query"
    /\ pc = "done"
    /\ trace[Len(trace)] = "Rewrite"
    /\ Val(reply).kind = "raise"
    /\ exc = Some("ModelError")
    /\ response = Some(Failed("ModelError"))

\* C2: in every response of generate_spl_query, success = False goes with
\* an absent spl_query and a present error, success = True with a present
\* spl_query and an absent error.
C2_ResponseShape ==
    (op = "generate_spl_query" /\ response # None) =>
        LET r == Val(response)
        IN  /\ ~r.success => r.spl_query = None /\ r.error # None
            /\ r.success => r.spl_query # None /\ r.error = None

\* a successful response whose query text is the empty text
C2_Witness ==
    /\ op = "generate_spl_query"
    /\ pc = "done"
    /\ trace[Len(trace)] = "Validate"
    /\ Val(response).success
    /\ Val(response).spl_query = Some(<<>>)
    /\ Val(response).error = None

\* C3: on a relevant request, an adapter failure produces a failure
\* response only when it happens in the synthesis stage.
C3_FailedOnlyInSynthesis ==
    (/\ op = "generate_spl_query"
     /\ verdict # None /\ Val(verdict).is_related
     /\ exc # None)
    => trace[Len(trace)] = "Synthesize"

\* the stage of generate_spl_query a step belongs to, counted from 1:
\* Classify, ResolveContext, the rewriting, RetrieveKnowledge, Synthesize,
\* Validate
Stage(step) ==
    CASE step \in {"Classify", "EmbeddingStage", "IntentStage"} -> 1
      [] step \in {"ResolveDirect", "ResolveCross", "ResolveAnalyze",
                   "ResolveSemantic"} -> 2
      [] step = "Rewrite" -> 3
      [] step = "Retrieve" -> 4
      [] step = "Synthesize" -> 5
      [] step = "Validate" -> 6

\* C4: generate_spl_query invokes its stages in the order Classify,
\* ResolveContext, rewriting, RetrieveKnowledge, Synthesize, Validate, each
\* at most once; after a not-related verdict it returns the rejection
\* (error "Not Splunk-related", the verdict's confidence and method) and
\* takes no further step.
C4_StagesInOrder ==
    /\ [](op = "generate_spl_query" =>
            /\ trace # <<>> => Stage(trace[1]) = 1
            /\ \A i \in 1..(Len(trace) - 1) :
                  /\ Stage(trace[i]) <= Stage(trace[i + 1])
                  /\ Stage(trace[i + 1]) <= Stage(trace[i]) + 1
            /\ \A i, j \in 1..Len(trace) : trace[i] = trace[j] => i = j
            /\ (verdict # None /\ ~Val(verdict).is_related) =>
                  /\ pc = "done"
                  /\ \A i \in 1..Len(trace) : Stage(trace[i]) = 1
                  /\ Val(response).success = FALSE
                  /\ Val(response).spl_query = None
                  /\ Val(response).error = Some("Not Splunk-related")
                  /\ Val(response).confidence = Some(Val(verdict).confidence)
                  /\ Val(response).detection_method = Some(Val(verdict).method))
    /\ [][(/\ op = "generate_spl_query"
           /\ verdict # None /\ ~Val(verdict).is_related) => op' = "idle"]_vars

\* the classifier went through its six stages and the request was rejected
C4_Witness ==
    /\ op = "generate_spl_query"
    /\ pc = "done"
    /\ trace = <<"Classify", "EmbeddingStage", "IntentStage">>
    /\ verdict = Some(Verdict(FALSE, 0, "llm_intent"))
    /\ Val(response).error = Some("Not Splunk-related")

(***************************************************************************)
(* Properties of the relevance classifier                                  *)
(***************************************************************************)
\* C5: when a keyword list of stages 1-4 matches the text, the verdict is
\* that of the first matching list in the order syntax (0.95), domain
\* (0.88), security (0.80), time (0.75); it is returned without a call of
\* the embedder or the language model, and the anchor cache is unchanged.
C5_KeywordShortCircuit ==
    [][pc = "classify" =>
         LET q == lower(user_query)
             syntax == \E k \in splunk_syntax_keywords : In(k, q)
             domain == \E k \in splunk_domain_keywords : In(k, q)
             security == \E k \in security_keywords : In(k, q)
             time == \E k \in time_patterns : In(k, q)
         IN  (syntax \/ domain \/ security \/ time) =>
               /\ verdict' = Some(
                     IF syntax
                     THEN [is_related |-> TRUE, confidence |-> Pct(95),
                           method |-> "syntax_match"]
                     ELSE IF domain
                     THEN [is_related |-> TRUE, confidence |-> Pct(88),
                           method |-> "domain_match"]
                     ELSE IF security
                     THEN [is_related |-> TRUE, confidence |-> Pct(80),
                           method |-> "security_keyword_match"]
                     ELSE [is_related |-> TRUE, confidence |-> Pct(75),
                           method |-> "time_pattern_match"])
               /\ trace' = <<"Classify">>
               /\ reply' = None
               /\ pc' \notin {"stage5", "stage6"}
               /\ anchor_embs' = anchor_embs]_vars

\* a text with a domain word and a security word got the domain verdict
\* while the anchor cache is still empty
C5_Witness ==
    /\ op = "check_relevance"
    /\ pc = "done"
    /\ user_query = <<"failed login", "Splunk">>
    /\ trace = <<"Classify">>
    /\ Val(response).method = "domain_match"
    /\ Val(response).confidence = Pct(88)
    /\ anchor_embs = "None"

\* C6: check_relevance never raises: whatever the embedder and the language
\* model do, it returns a verdict with a boolean is_splunk_related, a
\* confidence in [0, 1] and one of the six methods.
C6_ClassifyNeverRaises ==
    op = "check_relevance" =>
        /\ raised = None
        /\ pc = "done" =>
              /\ response # None
              /\ Val(response).is_splunk_related \in BOOLEAN
              /\ Val(response).confidence \in 0..One
              /\ Val(response).method \in
                    {"syntax_match", "domain_match", "security_keyword_match",
                     "time_pattern_match", "embedding_match", "llm_intent"}

(***************************************************************************)
(* Properties of the context resolver                                      *)
(***************************************************************************)
\* C7: _pick_best_company never raises and always returns a resolution,
\* whatever the language model and the embedder do at each of its calls;
\* inside generate_spl_query no exception leaves a resolver step.
C7_ResolveAlwaysReturns ==
    /\ op = "_pick_best_company" =>
          /\ raised = None
          /\ exc = None
          /\ pc = "done" =>
                /\ response # None
                /\ Val(response).company_index \in -1..(Len(company_data) - 1)
                /\ Val(response).method # ""
    /\ (op = "generate_spl_query" /\ exc # None) => Stage(trace[Len(trace)]) # 2

\* the resolver went through all four strategies, the whole-catalog
\* analysis gave its fallback object (confidence 0.3), the embedder raised,
\* and a resolution was returned
C7_Witness ==
    /\ op = "_pick_best_company"
    /\ pc = "done"
    /\ trace = <<"ResolveDirect", "ResolveCross", "ResolveAnalyze",
                 "ResolveSemantic">>
    /\ Val(reply).kind = "raise"
    /\ Val(response).method = "llm_analysis"
    /\ Val(response).confidence_score = Pct(30)

\* C8: when the text contains the name of exactly one catalog tenant,
\* _pick_best_company returns that tenant's entry with confidence >= 0.95
\* and is_cross_company false in its first step, whatever the adapters
\* reply; the later strategies are not consulted.
C8_ExplicitTenant ==
    [][pc = "resolve" =>
         LET q == lower(user_query)
             named == {i \in 1..Len(company_data) :
                          In(LowerOf(company_data[i].company_name), q)}
         IN  Cardinality(named) = 1 =>
               LET i == CHOOSE i \in named : TRUE
               IN  /\ company' # None
                   /\ Val(company').company_name = company_data[i].company_name
                   /\ Val(company').index = company_data[i].index
                   /\ Val(company').sourcetype = Some(company_data[i].sourcetype)
                   /\ Val(company').company_index = i - 1
                   /\ Val(company').confidence_score >= Pct(95)
                   /\ Val(company').confidence_score <= One
                   /\ ~Val(company').is_cross_company
                   /\ trace' = Append(trace, "ResolveDirect")
                   /\ pc' \in {"done", "rewrite"}]_vars

\* a text that names GreenEnergy and asks for all companies is resolved to
\* GreenEnergy in the first step although the language model raised
C8_Witness ==
    /\ op = "_pick_best_company"
    /\ pc = "done"
    /\ user_query = <<"GreenEnergy", "across all companies">>
    /\ trace = <<"ResolveDirect">>
    /\ Val(reply).kind = "raise"
    /\ Val(response).company_name = "GreenEnergy"
    /\ Val(response).index = "GreenEnergy_linux"
    /\ Val(response).confidence_score = Pct(95)

\* C9: _detect_cross_company_queries returns no cross-company result for a
\* text that contains a catalog tenant name, whatever the language model
\* replies and also when the call fails or the reply has no JSON.
C9_NoCrossWithTenantName ==
    (/\ op = "_detect_cross_company_queries"
     /\ pc = "done"
     /\ \E i \in 1..Len(company_data) :
           In(LowerOf(company_data[i].company_name), lower(user_query)))
    => Val(response) = None

\* C10 as claimed: for a text with the phrase "across all companies" and no
\* tenant name, and a catalog of at least two tenants, _pick_best_company
\* returns the cross-company resolution (index "*", company_index -1, no
\* sourcetype) whatever the language model replies.
C10_CrossForEveryReply ==
    (/\ op = "_pick_best_company"
     /\ pc = "done"
     /\ Len(company_data) >= 2
     /\ In("across all companies", lower(user_query))
     /\ \A i \in 1..Len(company_data) :
           ~In(LowerOf(company_data[i].company_name), lower(user_query)))
    => /\ Val(response).is_cross_company
       /\ Val(response).index = "*"
       /\ Val(response).company_index = -1
       /\ Val(response).sourcetype = None

\* C10: for such a text and catalog, the cross-company detection step
\* returns the cross-company resolution (index "*", company_index -1, no
\* sourcetype) when the model call fails, when the reply has no usable
\* JSON object, or when the reply says is_cross_company with a confidence
\* of at least 0.8.
C10_CrossUnlessModelDeclines ==
    (/\ op \in {"_pick_best_company", "generate_spl_query"}
     /\ trace # <<>> /\ trace[Len(trace)] = "ResolveCross"
     /\ Len(company_data) >= 2
     /\ In("across all companies", lower(user_query))
     /\ \A i \in 1..Len(company_data) :
           ~In(LowerOf(company_data[i].company_name), lower(user_query))
     /\ \/ Val(reply).kind = "raise"
        \/ Val(reply).form # "json"
        \/ Val(reply).is_cross_company /\ Val(reply).confidence >= Pct(80))
    => /\ company # None
       /\ Val(company).is_cross_company
       /\ Val(company).index = "*"
       /\ Val(company).company_index = -1
       /\ Val(company).sourcetype = None
       /\ pc \in {"done", "rewrite"}

\* the language model raised in the cross-company detection and the
\* phrase made the resolver return the cross-company resolution
C10_Witness ==
    /\ op = "_pick_best_company"
    /\ pc = "done"
    /\ user_query = <<"across all companies">>
    /\ trace = <<"ResolveDirect", "ResolveCross">>
    /\ Val(reply).kind = "raise"
    /\ Val(response).is_cross_company
    /\ Val(response).index = "*"
    /\ Val(response).method = "fallback_pattern_detection"

\* C11: every resolution _pick_best_company returns has a confidence_score
\* in [0, 1], whichever strategy produced it.
C11_ConfidenceInUnitInterval ==
    (op = "_pick_best_company" /\ pc = "done") =>
        /\ Val(response).confidence_score >= 0
        /\ Val(response).confidence_score <= One

\* C12: after a load that found no tenant file, _pick_best_company returns
\* the default tenant with confidence 0.5 and method "fallback" for every
\* text.
C12_DefaultTenantFallback ==
    (op = "_pick_best_company" /\ pc = "done" /\ company_data = DefaultCatalog) =>
        /\ Val(response).company_name = "Default"
        /\ Val(response).index = "main"
        /\ Val(response).company_index = 0
        /\ Val(response).confidence_score = Pct(50)
        /\ Val(response).method = "fallback"

\* C13: for a single-tenant resolution, the query _generate_unified_spl_query
\* returns without an exception, and the cleaned query of the response,
\* begin with index=<mandated index>, a space and the mandated sourcetype
\* clause, whatever text the language model returned.
C13_BeginsWithMandatedDeclaration ==
    (/\ op = "generate_spl_query"
     /\ pc \in {"validate", "done"}
     /\ company # None
     /\ ~(Val(company).is_cross_company \/ Val(company).index = "*"))
    => LET ctx == _validate_company_context(Val(company), company_data)
           decl == index_decl(ctx.index) \o <<SP>> \o ctx.sourcetype_clause
       IN  /\ pc = "validate" /\ Val(reply).kind = "text"
                => startswith(Val(spl_query), decl)
           /\ pc = "done" /\ Val(response).success
                => startswith(Val(Val(response).spl_query), decl)

\* C14: for a request resolved as cross-company (index "*"), the spl_query
\* of a successful response contains index=*, whatever text the language
\* model returned.
C14_CrossQueryHasWildcardIndex ==
    (/\ op = "generate_spl_query"
     /\ pc = "done"
     /\ company # None
     /\ Val(company).index = "*"
     /\ Val(response).success)
    => contains(Val(Val(response).spl_query), index_decl("*"))

\* C15: when the exemplar embedding or the model call inside
\* _generate_unified_spl_query raises, the function raises nothing and
\* returns a canned query that begins with the declaration of the resolved
\* context (index=<index> <sourcetype clause>, or index=* with the
\* multi-sourcetype clause for cross-company); for a failed-login request
\* the query ends with head 10 and has no limit command.  The same holds for
\* the query after _clean_spl_output.
C15_CannedQueryOnModelFailure ==
    [][(pc = "synth" /\ Val(reply').kind = "raise") =>
          LET c == Val(company)
              cross == c.is_cross_company \/ c.index = "*"
              ctx == _validate_company_context(c, company_data)
              decl == IF cross
                      THEN index_decl("*") \o <<SP>> \o cross_sourcetype_clause
                      ELSE index_decl(ctx.index) \o <<SP>> \o ctx.sourcetype_clause
              head10 == <<"|", SP, "head", SP, "10">>
              Canned(q) ==
                  /\ startswith(q, decl)
                  /\ In("failed login", lower(Val(improved))) =>
                        /\ SubSeq(q, Len(q) - 4, Len(q)) = head10
                        /\ \A t \in Range(q) : ~IsLimit(t)
          IN  /\ pc' = "validate" /\ raised' = None /\ exc' = None
              /\ \A q \in {Val(spl_query'), _clean_spl_output(Val(spl_query'))} :
                    Canned(q)
      ]_vars

\* the model call raised for a failed-login request of a single tenant and
\* the canned failed-login query was returned
C15_Witness ==
    /\ op = "generate_spl_query"
    /\ pc = "validate"
    /\ Val(reply).kind = "raise"
    /\ Val(reply).msg = "ModelError"
    /\ Val(company).index = "GreenEnergy_linux"
    /\ startswith(Val(spl_query),
                  index_decl("GreenEnergy_linux") \o <<SP>>
                      \o sourcetype_decl("linux_secure"))
    /\ contains(Val(spl_query), <<"EventCode", "=", "4625">>)
    /\ contains(Val(spl_query), <<"|", SP, "head", SP, "10">>)

\* C18: retrieval is best-effort inside generate_spl_query: when the vector
\* search, the reranker, the embedder or an extraction model call raises,
\* no exception leaves the stage, the extracted context passed on is empty,
\* the synthesis runs next, and a request that went through retrieval ends
\* in a response without error.
C18_RetrievalBestEffort ==
    /\ [][pc = "retrieve" =>
             /\ pc' = "synth" /\ exc' = None /\ raised' = None /\ response' = None
             /\ Val(reply').kind # "ok" => extracted' = <<>>]_vars
    /\ []((pc = "done" /\ "Retrieve" \in Range(trace)) =>
             /\ "Synthesize" \in Range(trace)
             /\ Val(response).success
             /\ Val(response).error = None
             /\ Val(response).spl_query # None)

\* an extraction model call raised, the context is empty and the synthesis
\* is the next step
C18_Witness ==
    /\ op = "generate_spl_query"
    /\ pc = "synth"
    /\ trace[Len(trace)] = "Retrieve"
    /\ Val(reply).kind = "model_raise"
    /\ extracted = <<>>
    /\ exc = None
    /\ response = None

C16_CleanIdempotent ==
    (op = "_clean_spl_output" /\ pc = "done") =>
        _clean_spl_output(Val(response)) = Val(response)

\* C17: the text _clean_spl_output returns has no occurrence of the
\* deprecated form limit N (limit in any letter case, white space, a
\* number), wherever it stood in the input.
C17_NoLimitAfterClean ==
    (op = "_clean_spl_output" /\ pc = "done") =>
        \A r \in {Val(response)} :
            ~\E i, j \in 1..Len(r) :
                /\ i + 1 < j
                /\ IsLimit(r[i])
                /\ IsNumber(r[j])
                /\ \A k \in (i + 1)..(j - 1) : IsSpace(r[k])

(***************************************************************************)
(* Properties of the anchor cache                                          *)
(***************************************************************************)
\* C19: the anchor embeddings are computed and stored at most once per
\* process: of the requests that reach stage 5 while the cache is empty at
\* most one is computing the anchors, and once a cache is populated no
\* request assigns it again.
C19_AnchorsComputedOnce ==
    /\ populated["spl_router"] + populated["chat_service"] <= 1
    /\ Cardinality({r \in Requests :
                       requests[r].pc \in {"embed_anchors", "assign"}}) <= 1
    /\ \A r \in Requests :
          requests[r].pc \in {"embed_anchors", "assign"} =>
              anchor_cache[requests[r].self] = "None"

C22_IntentStageReturnsModelVerdict ==
    (/\ op = "check_relevance"
     /\ pc = "done"
     /\ trace = <<"Classify", "EmbeddingStage", "IntentStage">>
     /\ Val(reply).kind = "text"
     /\ Val(reply).form \in {"json", "prose_json"}
     /\ Val(reply).keys)
    => /\ verdict = Some(Verdict(Val(reply).is_splunk_related,
                                 Val(reply).confidence, "llm_intent"))
       /\ Val(response).is_splunk_related = Val(reply).is_splunk_related

(***************************************************************************)
(* Properties of the final choice of _pick_best_company                    *)
(***************************************************************************)
\* C23: when the resolver reaches its last strategy, the resolution returned
\* is one of the collected candidates with the largest confidence_score, and
\* it names the same tenant for every order of the candidates; with no
\* candidate it is the first catalog entry with confidence 0.3 and method
\* default_fallback.
C23_ArbitrationOrderIndependent ==
    [][pc = "resolve_sem" =>
         LET sem == _semantic_company_matching(company_data, Val(reply'))
             all == IF sem # None THEN Append(candidates, Val(sem))
                    ELSE candidates
             n == Len(all)
             res == Val(company')
         IN  /\ n = 0 =>
                   res = Company(company_data[1], 0, Pct(30), "default_fallback")
             /\ n > 0 =>
                   /\ \E i \in 1..n : all[i] = res
                   /\ \A i \in 1..n :
                         all[i].confidence_score <= res.confidence_score
                   /\ \A f \in Permutations(1..n) :
                         BestCandidate([i \in 1..n |-> all[f[i]]],
                                       company_data).company_index
                             = res.company_index]_vars

\* C24: a strategy whose adapter call fails abstains: when the model call of
\* the whole-catalog analysis raises or its reply holds no usable JSON, the
\* candidates list is left as it was, and when the embedder raises in the
\* similarity strategy the resolution is the choice among the candidates
\* collected before.
C24_FailedStrategyAbstains ==
    /\ [][(/\ pc = "resolve_llm"
           /\ \/ Val(reply').kind = "raise"
              \/ Val(reply').form \in {"bad_json", "no_json"})
          => /\ candidates' = candidates
             /\ pc' = "resolve_sem"]_vars
    /\ [][(pc = "resolve_sem" /\ Val(reply').kind = "raise")
          => Val(company') = BestCandidate(candidates, company_data)]_vars

(***************************************************************************)
(* Properties of the repair of the first line and of the validation        *)
(***************************************************************************)
\* C25: whenever the final validation of _generate_unified_spl_query
\* rewrites the first line, the new first line has a time window: the
\* model's own earliest=<T> when its first line had one, earliest=-24h
\* otherwise; the text after the first pipe of the old first line follows
\* as a pipe segment and the later lines are unchanged.
C25_RepairKeepsTimeWindow ==
    [][(/\ pc = "synth"
        /\ Val(reply').kind = "text"
        /\ ~(Val(company).is_cross_company \/ Val(company).index = "*"))
       => \A out \in {unfence(Val(reply').out)} :
          \A res \in {Val(spl_query')} :
            LET ctx == _validate_company_context(Val(company), company_data)
                lines == split(out, NL)
                first == strip(lines[1])
                new_lines == split(res, NL)
                new_first == new_lines[1]
                piped == "|" \in Range(first)
            IN  ~startswith(first, index_decl(ctx.index)) =>
                  /\ \A i \in 1..(Len(first) - 2) :
                        (first[i] = "earliest" /\ first[i + 1] = "=") =>
                            contains(new_first,
                                     <<"earliest", "=", first[i + 2]>>)
                  /\ ~contains(first, <<"earliest", "=">>) =>
                        contains(new_first, <<"earliest", "=", "-24h">>)
                  /\ piped =>
                        /\ Len(new_lines) >= 2
                        /\ strip(Tail(new_lines[2])) =
                               strip(join(<<"|">>, Tail(split(first, "|"))))
      ]_vars

\* C26: _clean_spl_output keeps the line structure: for a text without
\* fences whose first line is a query line, every later line that starts
\* with a pipe stands on a line of its own in the result (n such lines give
\* n + 1 lines), and every pipe inside the result has exactly one space on
\* each side.
C26_CleanKeepsPipeLines ==
    (op = "_clean_spl_output" /\ pc = "done") =>
        \A x \in {Val(spl_query)} : \A res \in {Val(response)} :
            LET lines == split(x, NL)
                st == [i \in 1..Len(lines) |-> strip(lines[i])]
                n == Cardinality({i \in 2..Len(lines) :
                                     st[i] # <<>> /\ Head(st[i]) = "|"})
            IN  (/\ FENCE \notin Range(x)
                 /\ st[1] # <<>>
                 /\ Head(st[1]) # "|"
                 /\ ~is_explanatory(st[1]))
                => /\ Len(split(res, NL)) = n + 1
                   /\ \A i \in 2..(Len(res) - 1) :
                         res[i] = "|" => res[i - 1] = SP /\ res[i + 1] = SP

\* C27: validate_spl_syntax flags every offending line: each line after the
\* first that is not blank and starts with neither a pipe nor '#' gets the
\* issue "Line i: missing pipe |"; and a text whose first line has the index
\* declaration, whose later lines all start with a pipe and which has no
\* spaced '=' gets the empty list.
C27_EveryOffendingLineFlagged ==
    (op = "validate_spl_syntax" /\ pc = "done") =>
        \A q \in {Val(spl_query)} : \A issues \in {Val(response)} :
            LET lines == split(q, NL)
                st == [i \in 1..Len(lines) |-> strip(lines[i])]
            IN  /\ \A i \in 2..Len(lines) :
                      (st[i] # <<>> /\ Head(st[i]) \notin {"|", "#"}) =>
                          \E k \in 1..Len(issues) :
                              issues[k] = "Line " \o ToString(i) \o ": missing pipe |"
                /\ (/\ contains(lines[1], <<"index", "=">>)
                     /\ \A i \in 2..Len(lines) : st[i] # <<>> /\ Head(st[i]) = "|"
                     /\ ~contains(q, <<SP, "=", SP>>))
                    => issues = <<>>

\* C28: in every successful response of generate_spl_query the validation
\* result describes the returned query: issues is validate_spl_syntax of the
\* returned (cleaned) spl_query, and syntax_valid is true exactly when that
\* list is empty.
C28_IssuesDescribeReturnedQuery ==
    (/\ op = "generate_spl_query"
     /\ pc = "done"
     /\ response # None
     /\ Val(response).success)
    => \A r \in {Val(response)} :
         \A expected \in {validate_spl_syntax(Val(r.spl_query))} :
            /\ r.issues = expected
            /\ Val(r.syntax_valid) <=> (expected = <<>>)

\* C29: generate_spl_query and check_relevance agree on relevance: a
\* similarity of at least 0.30 at the embedding stage makes check_relevance
\* answer is_splunk_related = true, and a request of generate_spl_query whose
\* embedding stage saw such a similarity is not answered "Not Splunk-related".
C29_OperationsAgreeOnRelevance ==
    [][/\ (/\ op = "check_relevance"
            /\ pc = "stage5"
            /\ Val(reply').kind = "ok"
            /\ Val(reply').score >= Pct(30))
           => /\ pc' = "done"
              /\ Val(response').is_splunk_related
       /\ (/\ op = "generate_spl_query"
            /\ pc = "stage6"
            /\ Val(reply).kind = "ok"
            /\ Val(reply).score >= Pct(30))
           => ~(/\ pc' = "done"
                /\ response' # None
                /\ Val(response').error = Some("Not Splunk-related"))
      ]_vars

====
